---- MODULE Spec2Model ----
(***************************************************************************)
(* Model of the weatherAI query orchestration: MainService /ask            *)
(* (ask_weather, arbitration, situational short-circuit, recommendation    *)
(* fan-out), the NLPService rule-based classifier and the shared           *)
(* dynamic_keywords.json vocabulary file.                                  *)
(*                                                                         *)
(* Strings are TLA+ strings; Python's None is NULL.  Confidences are in    *)
(* hundredths (0.9 is 90); 89 stands for 0.8999999999999999, the double    *)
(* next below 0.9.                                                         *)
(***************************************************************************)
EXTENDS Integers, Sequences, FiniteSets, Bags, TLC

NULL == "<None>"

\* Python truthiness of an Optional[str]
Truthy(s) == s # NULL /\ s # ""

(***************************************************************************)
(* Text primitives (str.lower, "kw in text", str.split, str.title, re)     *)
(***************************************************************************)
UpperChars == "ABCDEFGHIJKLMNOPQRSTUVWXYZ"
LowerChars == "abcdefghijklmnopqrstuvwxyz"

CharAt(s, i) == SubSeq(s, i, i)

IsUpper(c) == \E i \in 1..26 : CharAt(UpperChars, i) = c
IsLower(c) == \E i \in 1..26 : CharAt(LowerChars, i) = c
IsLetter(c) == IsUpper(c) \/ IsLower(c)
IsSpace(c) == c = " "
IsDigit(c) == c \in {"0", "1", "2", "3", "4", "5", "6", "7", "8", "9"}
IsWordChar(c) == IsLetter(c) \/ IsDigit(c) \/ c = "_"

LowerChar(c) ==
    IF IsUpper(c)
    THEN CharAt(LowerChars, CHOOSE i \in 1..26 : CharAt(UpperChars, i) = c)
    ELSE c

UpperChar(c) ==
    IF IsLower(c)
    THEN CharAt(UpperChars, CHOOSE i \in 1..26 : CharAt(LowerChars, i) = c)
    ELSE c

RECURSIVE lower(_)
lower(s) ==
    IF Len(s) = 0 THEN ""
    ELSE LowerChar(CharAt(s, 1)) \o lower(SubSeq(s, 2, Len(s)))

\* Python's  kw in text  on strings: substring test
Contains(kw, text) ==
    \E i \in 1..(Len(text) - Len(kw) + 1) : SubSeq(text, i, i + Len(kw) - 1) = kw

\* any(keyword in text for keyword in kws)
AnyIn(kws, text) == \E kw \in kws : Contains(kw, text)

\* str.title(): a letter after a non-letter is upper-cased, other letters lower-cased
RECURSIVE titleFrom(_, _, _)
titleFrom(s, i, prevLetter) ==
    IF i > Len(s) THEN ""
    ELSE LET c == CharAt(s, i)
         IN  (IF prevLetter THEN LowerChar(c) ELSE UpperChar(c))
               \o titleFrom(s, i + 1, IsLetter(c))

title(s) == titleFrom(s, 1, FALSE)

\* index of the last character of the maximal run starting at i (i-1 if empty)
RECURSIVE LettersEnd(_, _)
LettersEnd(s, i) ==
    IF i <= Len(s) /\ IsLetter(CharAt(s, i)) THEN LettersEnd(s, i + 1) ELSE i - 1

RECURSIVE LowersEnd(_, _)
LowersEnd(s, i) ==
    IF i <= Len(s) /\ IsLower(CharAt(s, i)) THEN LowersEnd(s, i + 1) ELSE i - 1

RECURSIVE SpacesEnd(_, _)
SpacesEnd(s, i) ==
    IF i <= Len(s) /\ IsSpace(CharAt(s, i)) THEN SpacesEnd(s, i + 1) ELSE i - 1

\* \bin\s+  matched at position i: returns the index after the spaces, 0 if no match
InPrefix(s, i) ==
    IF /\ i + 2 <= Len(s)
       /\ SubSeq(s, i, i + 1) = "in"
       /\ (i = 1 \/ ~IsWordChar(CharAt(s, i - 1)))
       /\ IsSpace(CharAt(s, i + 2))
    THEN SpacesEnd(s, i + 2) + 1
    ELSE 0

\* ([A-Za-z]+(?:\s+[A-Za-z]+)*) greedy, j is the end of the words matched so far
RECURSIVE WordsEnd(_, _)
WordsEnd(s, j) ==
    LET sp == SpacesEnd(s, j + 1)
        le == LettersEnd(s, sp + 1)
    IN  IF sp > j /\ le > sp THEN WordsEnd(s, le) ELSE j

\* [A-Z][a-z]+ at position i: end index, 0 if no match
CapWordEnd(s, i) ==
    IF i <= Len(s) /\ IsUpper(CharAt(s, i)) /\ LowersEnd(s, i + 1) > i
    THEN LowersEnd(s, i + 1)
    ELSE 0

\* ([A-Z][a-z]+(?:\s+[A-Z][a-z]+)*) greedy
RECURSIVE CapWordsEnd(_, _)
CapWordsEnd(s, j) ==
    LET sp == SpacesEnd(s, j + 1)
        ce == CapWordEnd(s, sp + 1)
    IN  IF sp > j /\ ce > 0 THEN CapWordsEnd(s, ce) ELSE j

\* re.search(r'\bin\s+([A-Za-z]+(?:\s+[A-Za-z]+)*)', s).group(1), NULL if no match
SearchInWords(s) ==
    LET Hit(i) == InPrefix(s, i) > 0 /\ LettersEnd(s, InPrefix(s, i)) >= InPrefix(s, i)
        hits == {i \in 1..Len(s) : Hit(i)}
    IN  IF hits = {} THEN NULL
        ELSE LET i == CHOOSE h \in hits : \A g \in hits : h <= g
                 b == InPrefix(s, i)
             IN  SubSeq(s, b, WordsEnd(s, LettersEnd(s, b)))

\* re.search(r'\bin\s+([A-Z][a-z]+(?:\s+[A-Z][a-z]+)*)', s).group(1), NULL if no match
SearchInCapWords(s) ==
    LET Hit(i) == InPrefix(s, i) > 0 /\ CapWordEnd(s, InPrefix(s, i)) > 0
        hits == {i \in 1..Len(s) : Hit(i)}
    IN  IF hits = {} THEN NULL
        ELSE LET i == CHOOSE h \in hits : \A g \in hits : h <= g
                 b == InPrefix(s, i)
             IN  SubSeq(s, b, CapWordsEnd(s, CapWordEnd(s, b)))

\* str.split(): the set of whitespace-separated words of s
RECURSIVE NonSpaceEnd(_, _)
NonSpaceEnd(s, i) ==
    IF i <= Len(s) /\ ~IsSpace(CharAt(s, i)) THEN NonSpaceEnd(s, i + 1) ELSE i - 1

split(s) ==
    {SubSeq(s, i, NonSpaceEnd(s, i)) :
        i \in {k \in 1..Len(s) : ~IsSpace(CharAt(s, k))
                                 /\ (k = 1 \/ IsSpace(CharAt(s, k - 1)))}}

\* the maximal letter runs of s from position i on, in order (spaCy alphabetic tokens)
RECURSIVE AlphaTokensFrom(_, _)
AlphaTokensFrom(s, i) ==
    IF i > Len(s) THEN <<>>
    ELSE IF IsLetter(CharAt(s, i))
         THEN <<SubSeq(s, i, LettersEnd(s, i))>> \o AlphaTokensFrom(s, LettersEnd(s, i) + 1)
         ELSE AlphaTokensFrom(s, i + 1)

AlphaTokens(s) == AlphaTokensFrom(s, 1)

\* f-string rendering of an Optional[str]
Str(v) == IF v = NULL THEN "None" ELSE v

Min(a, b) == IF a <= b THEN a ELSE b

(***************************************************************************)
(* Bounds and input domains                                                *)
(***************************************************************************)
MaxRequests == 1
MaxCandidates == 4

Queries ==
    { "Best mountains in Switzerland",
      "best peaks in AUSTRIA",
      "Best beaches in Italy",
      "Best beaches and mountains in Italy",
      "Top mountains",
      "Favorite lakes in Spain",
      "Popular beaches in Italy",
      "Where should I go?",
      "Weather in Paris",
      "weather" }

UserLocations == {NULL, "Paris"}

\* queries of the form "best <category-word> in <Capitalized Country>"
CategoryWords ==
    {"beaches", "ocean", "peaks", "hill", "cities", "capital", "lake", "places"}
Countries == {"Spain", "New Zealand", "Ivory Coast", "Vatican City"}
BestQuery(w, k) == "best " \o w \o " in " \o k

\* other queries posted to NLPService /parse: with a situational phrase, with
\* and without a recommendation phrase and an "in"; with weather keywords of
\* no, one and two groups, with and without "in <Capitalized word>"
ClassifierQueries ==
    { "Where should I go?",
      "Where is the best weather?",
      "Where are top beaches in Italy",
      "Weather in Paris",
      "Cold wind in Oslo",
      "Paris",
      "is it humid in london" }

\* what the generation model may put in its parse answer
OllamaIntents ==
    {"current_weather", "situational", "mountain_recommendation", "place_recommendation"}
OllamaLocations == {NULL, "Paris", "SWITZERLAND"}
\* (the prompt asks for 0.0-1.0; the answer is not validated: 150 is 1.5)
OllamaConfidences == {80, 95, 150}

\* the "keywords" object the generation model may put in its parse answer:
\* category -> list of phrases; the empty mapping when it has none
NoKeywords == [c \in {} |-> <<>>]
OllamaKeywords == {NoKeywords, [c \in {"location"} |-> <<"beaches">>]}

\* update mappings posted to NLPService /update_keywords: a phrase for a default
\* category, a repeated phrase for a category no default has, a known and a new
\* phrase for a category both services keep, a known phrase in another case
UpdateMappings ==
    { [c \in {"location"} |-> <<"beaches">>],
      [c \in {"terrain"} |-> <<"fjord", "fjord">>],
      [c \in {"situational"} |-> <<"where", "nearby">>],
      [c \in {"recommendation"} |-> <<"Best">>] }

\* queries whose words MainService feeds back into the vocabulary
FeedbackQueries == {"Where should I go?", "Best beaches in Italy"}

\* how the call to the generation API may end for parse_with_ollama
GenerationOutcomes == {"ok", "not_json", "not_object", "non_200", "timeout"}

\* what the generation model may answer to a recommend prompt
GeneratedNames == <<"Zermatt", "Davos", "Lugano", "Bern", "Basel">>
GeneratedLists == {SubSeq(GeneratedNames, 1, n) : n \in 0..MaxCandidates}

(***************************************************************************)
(* Dictionaries                                                            *)
(***************************************************************************)
\* a parse result as MainService sees it (QueryResponse); None is the absent dict
None ==
    [original_query |-> NULL, intent |-> NULL, location |-> NULL,
     confidence |-> 0, processing_method |-> NULL]

Parsed(q, i, l, c, m) ==
    [original_query |-> q, intent |-> i, location |-> l,
     confidence |-> c, processing_method |-> m]

\* dict.get(key, default) on a vocabulary mapping: the phrases of a category
Get(d, k, default) == IF k \in DOMAIN d THEN BagToSet(d[k]) ELSE default

(***************************************************************************)
(* The shared vocabulary file dynamic_keywords.json                        *)
(* (all services are started from one working directory)                   *)
(***************************************************************************)
NoFile == [exists |-> FALSE, data |-> [c \in {} |-> EmptyBag]]

\* MainService.load_dynamic_keywords: the built-in defaults
MainDefaults ==
    [c \in {"situational", "weather"} |->
        IF c = "situational"
        THEN SetToBag({"where", "best place", "worst place", "should go", "can go"})
        ELSE SetToBag({"weather", "temperature", "forecast", "rain", "sunny"})]

MainLoad(file) == IF file.exists THEN file.data ELSE MainDefaults

LocationVocabulary ==
    {"beach", "coast", "shore", "seaside", "ocean", "sea", "coastal", "mountain",
     "peak", "summit", "hill", "alpine", "hiking", "climbing", "city", "town",
     "urban", "metropolitan", "downtown", "capital", "village", "resort", "park",
     "forest", "lake", "river", "island", "peninsula", "valley", "desert",
     "canyon", "volcano", "glacier", "waterfall", "cave", "monument", "landmark",
     "attraction", "destination"}

\* NLPService.load_dynamic_keywords: the built-in defaults
NlpDefaults ==
    [c \in {"situational", "weather", "recommendation", "location"} |->
        CASE c = "situational" ->
                SetToBag({"where", "should go", "can go", "where to", "recommend me"})
          [] c = "weather" ->
                SetToBag({"weather", "temperature", "forecast", "rain", "sunny"})
          [] c = "recommendation" ->
                SetToBag({"best", "top", "recommend", "suggest", "favorite", "popular"})
          [] OTHER -> SetToBag(LocationVocabulary)]

NlpLoad(file) == IF file.exists THEN file.data ELSE NlpDefaults

\* MainService.update_keywords_from_ollama: the words it adds to "situational"
NewKeywords(q, keywords) ==
    LET query_lower == lower(q)
    IN  {word \in split(query_lower) :
            /\ Len(word) > 3
            /\ ~BagIn(word, keywords["situational"])
            /\ ~BagIn(word, keywords["weather"])
            /\ AnyIn({"where", "best", "worst", "should", "can"}, query_lower)}

\* the file after update_keywords_from_ollama(q, _): load, extend, dedup, save
UpdateKeywordsFromOllama(q, file) ==
    LET keywords == MainLoad(file)
        new_keywords == NewKeywords(q, keywords)
    IN  IF new_keywords = {} THEN file
        ELSE [exists |-> TRUE,
              data |-> [keywords EXCEPT !["situational"] =
                          SetToBag(BagToSet(keywords["situational"]) \cup new_keywords)]]

\* update_keywords_from_ollama raises KeyError when a category it indexes is missing
UpdateKeywordsRaises(file) ==
    ~({"situational", "weather"} \subseteq DOMAIN MainLoad(file))

\* the phrases of a list, and the list as stored (repeats kept)
Range(seq) == {seq[i] : i \in 1..Len(seq)}
ListToBag(seq) ==
    [x \in Range(seq) |-> Cardinality({i \in 1..Len(seq) : seq[i] = x})]

\* NLPService.update_keywords: the mapping saved for the update mapping keywords
\* on the loaded mapping current
Merge(current, keywords) ==
    [category \in DOMAIN current \cup DOMAIN keywords |->
        IF category \notin DOMAIN keywords THEN current[category]
        ELSE IF category \in DOMAIN current
             THEN SetToBag(BagToSet(current[category]) \cup Range(keywords[category]))
             ELSE ListToBag(keywords[category])]

\* the file after NLPService.update_keywords(keywords): load, merge, save
update_keywords(keywords, file) ==
    [exists |-> TRUE, data |-> Merge(NlpLoad(file), keywords)]

NlpSaveMergesIntoFile(current, keywords, file) == update_keywords(keywords, file)

\* the file after the save of update_keywords, line 204: the local current,
\* loaded at line 196, with the merge applied; what the file holds by then is
\* overwritten
NlpSave(current, keywords, file) == [exists |-> TRUE, data |-> Merge(current, keywords)]

\* the file after the save of update_keywords_from_ollama, lines 66-69, for the
\* local keywords loaded at line 57
MainSave(q, keywords, file) ==
    IF NewKeywords(q, keywords) = {} THEN file
    ELSE [exists |-> TRUE,
          data |-> [keywords EXCEPT !["situational"] =
                      SetToBag(BagToSet(keywords["situational"])
                                  \cup NewKeywords(q, keywords))]]

(***************************************************************************)
(* NLPService: parse_query_text and the /parse route                       *)
(***************************************************************************)
BeachWords == {"beach", "coast", "shore", "seaside", "ocean", "sea", "coastal", "beaches"}
MountainWords ==
    {"mountain", "peak", "summit", "hill", "alpine", "hiking", "climbing",
     "mountains", "peaks", "summits"}
CityWords == {"city", "town", "urban", "metropolitan", "downtown", "capital", "cities"}
SkipWords == {"weather", "temperature", "forecast", "today", "tomorrow", "yesterday"}

\* weather_keywords in dict order
WeatherKeywords ==
    << [intent |-> "temperature",
        keywords |-> {"temperature", "temp", "hot", "cold", "warm", "cool"}],
       [intent |-> "current_weather", keywords |-> {"weather", "forecast", "conditions"}],
       [intent |-> "humidity", keywords |-> {"humidity", "humid", "moisture"}],
       [intent |-> "wind", keywords |-> {"wind", "breeze", "gusty"}],
       [intent |-> "precipitation",
        keywords |-> {"rain", "snow", "precipitation", "storm", "drizzle"}] >>

\* the recommendation_type chosen by the if/elif chain, NULL when none
RecommendationType(query_lower, dynamic_keywords) ==
    IF AnyIn(BeachWords, query_lower) THEN "beach"
    ELSE IF AnyIn(MountainWords, query_lower) THEN "mountain"
    ELSE IF AnyIn(CityWords, query_lower) THEN "city"
    ELSE IF AnyIn(Get(dynamic_keywords, "location", {}), query_lower) THEN "place"
    ELSE IF Contains("place", query_lower) \/ Contains("places", query_lower) THEN "place"
    ELSE NULL

\* re.search(r'\bin\s+([A-Z][a-z]+)', s).group(1), NULL if no match
SearchInCapWord(s) ==
    LET Hit(i) == InPrefix(s, i) > 0 /\ CapWordEnd(s, InPrefix(s, i)) > 0
        hits == {i \in 1..Len(s) : Hit(i)}
    IN  IF hits = {} THEN NULL
        ELSE LET i == CHOOSE h \in hits : \A g \in hits : h <= g
                 b == InPrefix(s, i)
             IN  SubSeq(s, b, CapWordEnd(s, b))

NlpResult(q, i, l, c, t, k) ==
    [original_query |-> q, intent |-> i, location |-> l, confidence |-> c,
     processing_method |-> "spacy", recommendation_type |-> t, country |-> k]

ExtractLocationRegexBeforeToken(q, ent, propn) ==
    LET ok == {i \in 1..Len(propn) :
                  Len(propn[i]) > 2 /\ lower(propn[i]) \notin SkipWords}
    IN  IF Truthy(ent) THEN [location |-> ent, confidence |-> 80]
        ELSE IF SearchInCapWord(q) # NULL
             THEN [location |-> SearchInCapWord(q), confidence |-> 70]
        ELSE IF ok # {}
             THEN [location |-> propn[CHOOSE i \in ok : \A j \in ok : i <= j],
                   confidence |-> 60]
        ELSE [location |-> NULL, confidence |-> 50]

\* the entity-extractor tiers: ent is the first GPE/LOC entity spaCy reports (NULL
\* if none), propn the alphabetic tokens it tags PROPN, in document order
ExtractLocation(q, ent, propn) ==
    LET ok == {i \in 1..Len(propn) :
                  Len(propn[i]) > 2 /\ lower(propn[i]) \notin SkipWords}
    IN  IF Truthy(ent) THEN [location |-> ent, confidence |-> 80]
        ELSE IF ok # {}
             THEN [location |-> propn[CHOOSE i \in ok : \A j \in ok : i <= j],
                   confidence |-> 60]
        ELSE IF SearchInCapWord(q) # NULL
             THEN [location |-> SearchInCapWord(q), confidence |-> 70]
        ELSE [location |-> NULL, confidence |-> 50]

\* a + b on Python floats (IEEE doubles), for the sums line 172 can form: 0.5 + 0.2,
\* 0.6 + 0.2 and 0.8 + 0.2 are the doubles 0.7, 0.8 and 1.0, while 0.7 + 0.2 is
\* 0.8999999999999999
FloatAdd(a, b) == IF a = 70 /\ b = 20 THEN 89 ELSE a + b

\* the weather-keyword tagging loop over weather_keywords.items()
WeatherIntent(query_lower, confidence) ==
    LET hits == {i \in 1..Len(WeatherKeywords) :
                    AnyIn(WeatherKeywords[i].keywords, query_lower)}
    IN  IF hits = {} THEN [intent |-> "general_weather", confidence |-> confidence]
        ELSE [intent |-> WeatherKeywords[CHOOSE i \in hits : \A j \in hits : i <= j].intent,
              confidence |-> Min(FloatAdd(confidence, 20), 90)]

parse_query_text(q, dynamic_keywords, ent, propn) ==
    LET query_lower == lower(q)
        recommendation == Get(dynamic_keywords, "recommendation", {})
        recommendation_type == RecommendationType(query_lower, dynamic_keywords)
        match == SearchInCapWords(q)
        situational_keywords ==
            Get(dynamic_keywords, "situational", {"where", "should go", "can go"})
        loc == ExtractLocation(q, ent, propn)
        tag == WeatherIntent(query_lower, loc.confidence)
    IN  IF /\ AnyIn(recommendation, query_lower) /\ Contains("in", query_lower)
           /\ match # NULL /\ recommendation_type # NULL
        THEN NlpResult(q, "recommendation", NULL, 90, recommendation_type, match)
        ELSE IF AnyIn(situational_keywords, query_lower)
                /\ ~AnyIn(recommendation, query_lower)
        THEN NlpResult(q, "situational", NULL, 90, NULL, NULL)
        ELSE NlpResult(q, tag.intent, loc.location, tag.confidence, NULL, NULL)

\* response_model=QueryResponse keeps only the declared fields
QueryResponse(r) ==
    Parsed(r.original_query, r.intent, r.location, r.confidence, r.processing_method)

\* what spaCy may report for a query: an entity and a choice of PROPN tokens
SpacyEntities(q) == {NULL} \cup {AlphaTokens(q)[i] : i \in 1..Len(AlphaTokens(q))}

RECURSIVE SubSeqAt(_, _, _)
SubSeqAt(seq, idx, i) ==
    IF i > Len(seq) THEN <<>>
    ELSE (IF i \in idx THEN <<seq[i]>> ELSE <<>>) \o SubSeqAt(seq, idx, i + 1)

SpacyProperNouns(q) ==
    {SubSeqAt(AlphaTokens(q), idx, 1) : idx \in SUBSET (1..Len(AlphaTokens(q)))}

(***************************************************************************)
(* OllamaService /parse and /recommend as seen by MainService              *)
(***************************************************************************)
\* the answer of the JSONDecodeError branch, lines 203-210
Degraded(q) == Parsed(q, "general_weather", NULL, 30, "ollama")

\* what parse_with_ollama returns when the generation call ends with outcome:
\* the model's JSON object with original_query and processing_method set, the
\* degraded answer when the text is not JSON; None stands for an exception
\* (non-200 at line 186, a timeout of the call, item assignment on a JSON value
\* that is not an object at line 193)
OllamaResults(q, outcome) ==
    IF outcome = "ok"
    THEN {Parsed(q, i, l, c, "ollama") :
             i \in OllamaIntents, l \in OllamaLocations, c \in OllamaConfidences}
    ELSE IF outcome = "not_json" THEN {Degraded(q)}
    ELSE {None}

\* get_recommendations_from_ollama: what recommendations.get("locations", [])
\* works on.  kind "object" is a JSON object (locations is its list, <<>> when
\* the key is missing or the call failed), "non_object" any other JSON value
RecommendFailed == [kind |-> "object", locations |-> <<>>]
RecommendAnswers ==
    {[kind |-> "object", locations |-> l] : l \in GeneratedLists}
    \cup {[kind |-> "non_object", locations |-> <<>>]}

(***************************************************************************)
(* PlaywrightWeatherService /weather as seen by try_playwright             *)
(***************************************************************************)
NoWeather ==
    [present |-> FALSE, success |-> FALSE, location |-> NULL,
     temperature |-> NULL, condition |-> NULL]

Weather(ok, l, t, c) ==
    [present |-> TRUE, success |-> ok, location |-> l, temperature |-> t, condition |-> c]

\* scrape_weather returns success only with a temperature or a condition
Scraped == {<<"21C", "Sunny">>, <<NULL, "Sunny">>}

\* WeatherRequest requires location: str and intent: str; a body that fails the
\* validation is answered 422, which try_playwright turns into None
ValidWeatherRequest(payload) ==
    payload # None /\ payload.location # NULL /\ payload.intent # NULL

try_playwright(payload) ==
    IF ValidWeatherRequest(payload)
    THEN {NoWeather, Weather(FALSE, payload.location, NULL, NULL)}
         \cup {Weather(TRUE, payload.location, sc[1], sc[2]) : sc \in Scraped}
    ELSE {NoWeather}

(***************************************************************************)
(* MainService: ask_weather                                                *)
(***************************************************************************)
RecommendationIntents ==
    {"recommendation", "beach_recommendation", "city_recommendation",
     "mountain_recommendation"}

\* lines 80-119: the recommendation pre-check that runs before try_nlp
PreCheck(q) ==
    LET query_lower == lower(q)
        match == SearchInWords(q)
        country == IF match # NULL THEN title(match) ELSE NULL
    IN  IF AnyIn({"best", "top", "recommend", "suggest"}, query_lower)
           /\ Contains("in", query_lower)
        THEN IF AnyIn({"mountain", "mountains", "peak", "peaks", "summit", "summits"},
                      query_lower)
             THEN Parsed(q, "mountain_recommendation",
                         IF Contains("nepal", query_lower) THEN "Nepal" ELSE NULL,
                         90, "fallback")
             ELSE IF AnyIn({"beach", "beaches", "coast", "shore", "seaside"}, query_lower)
             THEN Parsed(q, "beach_recommendation", country, 90, "fallback")
             ELSE IF AnyIn({"city", "cities", "town", "urban"}, query_lower)
             THEN Parsed(q, "city_recommendation", country, 90, "fallback")
             ELSE None
        ELSE None

\* lines 127-131: the Ollama result replaces parsed_query only when there is no
\* parsed_query or its confidence is strictly higher
ArbitrateTieToOllama(r, g) ==
    IF g # None /\ (r = None \/ g.confidence >= r.confidence) THEN g ELSE r

Arbitrate(r, g) ==
    IF g # None /\ (r = None \/ g.confidence > r.confidence) THEN g ELSE r

Response(text, status, pq, wd, method, req, actions) ==
    [response |-> text, status |-> status, parsed_query |-> pq, weather_data |-> wd,
     processing_method |-> method, requires_location |-> req,
     suggested_actions |-> actions]

NoResponse == Response(NULL, NULL, None, NoWeather, NULL, FALSE, <<>>)

\* handle_situational_query; an absent suggested_actions is <<>>
SituationalSuggestions(q) ==
    LET query_lower == lower(q)
    IN  IF AnyIn({"mountain", "mountains", "peak", "peaks", "summit"}, query_lower)
        THEN << "Tell me your location to find nearby mountains",
                "Or ask about specific mountains (e.g., 'Weather at Everest Base Camp')",
                "Or ask about mountains in a country (e.g., 'Mountains in Nepal weather')" >>
        ELSE IF AnyIn({"beach", "beaches", "coast", "shore"}, query_lower)
        THEN << "Tell me your location to find nearby beaches",
                "Or ask about specific beaches (e.g., 'Weather at Miami Beach')",
                "Or ask about beaches in a country (e.g., 'Beaches in Spain weather')" >>
        ELSE IF AnyIn({"city", "cities", "town"}, query_lower)
        THEN << "Tell me your location to find nearby cities",
                "Or ask about specific cities (e.g., 'Weather in Paris')",
                "Or ask about cities in a country (e.g., 'Cities in Italy weather')" >>
        ELSE << "Tell me your current location",
                "Or ask about a specific place (e.g., 'Weather in Paris')",
                "Or ask about places in a region (e.g., 'Best places in Europe')" >>

handle_situational_query(q) ==
    Response("I would love to help you find that place! To give you accurate weather information, could you tell me your current city or location?",
             "location_required",
             [original_query |-> q, intent |-> "situational_recommendation"],
             NoWeather, "situational", TRUE, SituationalSuggestions(q))

\* lines 169-177
NoLocationResponse(q) ==
    Response("I need a location to provide weather information. Please specify a city or place.",
             "error", [original_query |-> q, error |-> "No location found"],
             NoWeather, "none", TRUE, <<"Please provide your city or location">>)

ExceptionPropagates(q, e) == NoResponse

\* lines 196-202: the top-level except
ExceptionResponse(q, e) ==
    Response("Sorry, I encountered an error: " \o e, "error",
             [original_query |-> q, error |-> e], NoWeather, "error", FALSE, <<>>)

UserLocationOverrideKeepsIntent(q, ul) == Parsed(q, "situational", ul, 90, "user_location")

\* lines 137-148: a situational intent with a user location becomes a weather intent
UserLocationOverride(q, ul) == Parsed(q, "weather", ul, 90, "user_location")

\* line 167
ResolvedLocation(ul, pq) ==
    IF Truthy(ul) THEN ul ELSE IF pq # None THEN pq.location ELSE NULL

\* format_response (the emoji of the source are left out of the text)
format_response(weather_data) ==
    ("Here's the weather for " \o Str(weather_data.location) \o ":")
    \o (IF Truthy(weather_data.temperature) /\ weather_data.temperature # "N/A"
        THEN " Temperature: " \o weather_data.temperature ELSE "")
    \o (IF Truthy(weather_data.condition) /\ weather_data.condition # "N/A"
           /\ weather_data.condition # "Unknown"
        THEN " Condition: " \o weather_data.condition ELSE "")

(***************************************************************************)
(* MainService: handle_recommendation_query                                *)
(***************************************************************************)
FanoutLocationSpainFirst(pq) ==
    LET location == pq.location
        original_query == lower(pq.original_query)
    IN  IF ~Truthy(location) \/ location = "Unknown"
        THEN IF Contains("spain", original_query) THEN "Spain"
             ELSE IF Contains("nepal", original_query) THEN "Nepal"
             ELSE IF Contains("switzerland", original_query) THEN "Switzerland"
             ELSE IF Contains("france", original_query) THEN "France"
             ELSE IF Contains("italy", original_query) THEN "Italy"
             ELSE location
        ELSE location

\* lines 244-258: literal country detection when the location is empty or "Unknown"
FanoutLocation(pq) ==
    LET location == pq.location
        original_query == lower(pq.original_query)
    IN  IF ~Truthy(location) \/ location = "Unknown"
        THEN IF Contains("nepal", original_query) THEN "Nepal"
             ELSE IF Contains("switzerland", original_query) THEN "Switzerland"
             ELSE IF Contains("france", original_query) THEN "France"
             ELSE IF Contains("italy", original_query) THEN "Italy"
             ELSE IF Contains("spain", original_query) THEN "Spain"
             ELSE location
        ELSE location

\* line 260
FanoutType(intent) ==
    IF Contains("beach", intent) THEN "beach"
    ELSE IF Contains("city", intent) THEN "city"
    ELSE IF Contains("mountain", intent) THEN "mountain"
    ELSE "place"

\* line 262
RecommendPrompt(recommendation_type, location) ==
    IF recommendation_type = "mountain"
    THEN "Famous mountains in " \o Str(location)
    ELSE "Best " \o recommendation_type \o "s in " \o Str(location)

\* lines 267-280 (accented letters of the source written without accent)
mountain_fallback ==
    LET peaks(c) ==
          CASE c \in {"Switzerland", "switzerland"} ->
                  <<"Matterhorn", "Jungfrau", "Eiger", "Pilatus", "Rigi">>
            [] c \in {"France", "france"} ->
                  <<"Mont Blanc", "Mont Ventoux", "Pic du Midi", "Chamonix", "Annecy">>
            [] c \in {"Italy", "italy"} ->
                  <<"Matterhorn", "Monte Bianco", "Dolomites", "Gran Paradiso", "Monte Rosa">>
            [] c \in {"Spain", "spain"} ->
                  <<"Teide", "Mulhacen", "Aneto", "Pico de Europa", "Nevado">>
            [] c \in {"Austria", "austria"} ->
                  <<"Grossglockner", "Zugspitze", "Kitzbuhel", "Innsbruck", "Salzburg">>
            [] OTHER -> <<"Mount Everest", "K2", "Makalu", "Cho Oyu", "Lhotse">>
    IN  [c \in {"Switzerland", "switzerland", "France", "france", "Italy", "italy",
                "Spain", "spain", "Austria", "austria", "Nepal", "nepal"} |-> peaks(c)]

\* lines 264-288: the candidate list and the display location
Candidates(pq, recommendation_type, location, generated) ==
    IF recommendation_type = "mountain"
    THEN IF location \in DOMAIN mountain_fallback
         THEN [locations |-> mountain_fallback[location], location |-> location]
         ELSE IF (~Truthy(location) \/ location = "Unknown")
                 /\ Contains("nepal", lower(pq.original_query))
         THEN [locations |-> mountain_fallback["Nepal"], location |-> "Nepal"]
         ELSE [locations |-> generated, location |-> location]
    ELSE [locations |-> generated, location |-> location]

FirstThreeNoCap(locations) == locations

\* locations[:3]
FirstThree(locations) == SubSeq(locations, 1, Min(Len(locations), 3))

\* the payload of one fan-out lookup, lines 300-306
FanoutPayload(loc) == Parsed("Weather in " \o loc, "weather", loc, 90, "recommendation")

\* lines 308-313
Observation(loc, weather_data) ==
    [location |-> loc, temperature |-> weather_data.temperature,
     condition |-> weather_data.condition]

\* lines 323-325 (the emoji of the source is left out of the text)
RECURSIVE ResultLines(_)
ResultLines(results) ==
    IF results = <<>> THEN ""
    ELSE (" " \o results[1].location \o ": " \o Str(results[1].temperature)
              \o ", " \o Str(results[1].condition))
         \o ResultLines(Tail(results))

AggregateAllOrNothing(pq, recommendation_type, location, weather_results) ==
    IF Len(weather_results) < 3
    THEN Response("Sorry, I couldn't get weather data for the recommended "
                     \o recommendation_type \o "s in " \o Str(location) \o ".",
                  "error", pq, NoWeather, "playwright", FALSE, <<>>)
    ELSE Response("Best " \o recommendation_type \o "s in " \o Str(location) \o " today:"
                     \o ResultLines(weather_results),
                  "success", pq, NoWeather, "recommendation", FALSE, <<>>)

\* lines 315-332
Aggregate(pq, recommendation_type, location, weather_results) ==
    IF weather_results = <<>>
    THEN Response("Sorry, I couldn't get weather data for the recommended "
                     \o recommendation_type \o "s in " \o Str(location) \o ".",
                  "error", pq, NoWeather, "playwright", FALSE, <<>>)
    ELSE Response("Best " \o recommendation_type \o "s in " \o Str(location) \o " today:"
                     \o ResultLines(weather_results),
                  "success", pq, NoWeather, "recommendation", FALSE, <<>>)

\* lines 290-296
NoRecommendationsResponse(pq, recommendation_type, location) ==
    Response("Sorry, I couldn't find recommendations for " \o recommendation_type
                \o "s in " \o Str(location) \o ".",
             "error", pq, NoWeather, "ollama", FALSE, <<>>)

(***************************************************************************)
(* State                                                                   *)
(***************************************************************************)
VARIABLES
    pc,              \* where the /ask handler is suspended: idle, nlp, ollama
                     \* (merge, ollama_reply: where OllamaService is meanwhile),
                     \* recommend, fanout, single, done
    requests,        \* number of /ask requests received so far
    query,           \* WeatherQuery.query of the current request
    user_location,   \* WeatherQuery.user_location of the current request
    R,               \* parsed_query before arbitration (pre-check or try_nlp)
    doc,             \* NLPService: what spaCy reported for the query to classify
    nlp_result,      \* NLPService: result of parse_query_text, before response_model
    ollama,          \* OllamaService: the /parse request MainService waits for
    G,               \* ollama_result
    winner,          \* parsed_query after lines 127-131
    parsed_query,    \* the local parsed_query
    fan,             \* locals of handle_recommendation_query
    lookups,         \* payloads posted to /weather by this request, in order
    inflight,        \* indices of lookups whose answer is still awaited
    answers,         \* what try_playwright returned for each lookup, in order
    response,        \* the WeatherResponse returned, NoResponse before
    raised,          \* the exception handle_recommendation_query raised, NULL if none
    keywords_file,   \* dynamic_keywords.json
    writers          \* the calls of NLPService.update_keywords and of MainService.
                     \* update_keywords_from_ollama between their load and their save

vars ==
    <<pc, requests, query, user_location, R, doc, nlp_result, ollama, G, winner,
      parsed_query, fan, lookups, inflight, answers, response, raised, keywords_file,
      writers>>

\* doc = nlp(query), line 92, reduced to what parse_query_text reads: ent, the
\* first entity labelled GPE or LOC (NULL if none), and propn, the alphabetic
\* tokens tagged PROPN in document order.  NoDoc: no query is being classified
NoDoc == [ent |-> NULL, propn |-> <<>>]

\* NLPService has not answered /parse for the current request
NoNlpResult ==
    [original_query |-> NULL, intent |-> NULL, location |-> NULL, confidence |-> 0,
     processing_method |-> NULL, recommendation_type |-> NULL, country |-> NULL]

\* OllamaService has no /parse request at hand.  outcome: how the generation
\* call ended; parsed: what parse_with_ollama returns; keywords: parsed["keywords"];
\* merge: send_keywords_to_nlp not called (NULL), awaited ("pending"), answered
\* by NLPService ("updated") or given up ("failed")
NoOllama == [outcome |-> NULL, parsed |-> None, keywords |-> NoKeywords, merge |-> NULL]

\* no update of the vocabulary file is under way.  nlp: update_keywords with its
\* argument keywords and its local current; main: update_keywords_from_ollama
\* with its argument query and its local keywords; added: the (category, phrase)
\* pairs the last completed call saved; overlapped: a call has loaded the file
\* while the other service was between its load and its save
NoWriters ==
    [nlp |-> [pc |-> "idle", keywords |-> NoKeywords, current |-> NoFile.data, added |-> {}],
     main |-> [pc |-> "idle", query |-> NULL, keywords |-> NoFile.data, added |-> {}],
     overlapped |-> FALSE]

NoFan ==
    [location |-> NULL, recommendation_type |-> NULL, prompt |-> NULL,
     locations |-> <<>>, weather_results |-> <<>>]

Init ==
    /\ pc = "idle"
    /\ requests = 0
    /\ query = NULL
    /\ user_location = NULL
    /\ R = None
    /\ doc = NoDoc
    /\ nlp_result = NoNlpResult
    /\ ollama = NoOllama
    /\ G = None
    /\ winner = None
    /\ parsed_query = None
    /\ fan = NoFan
    /\ lookups = <<>>
    /\ inflight = {}
    /\ answers = <<>>
    /\ response = NoResponse
    /\ raised = NULL
    /\ keywords_file = NoFile
    /\ writers = NoWriters

(***************************************************************************)
(* The resolvers as MainService calls them                                 *)
(***************************************************************************)
\* NLPService.parse_query: what parse_query_text may return for the query
ParseQuery(q, file) ==
    {parse_query_text(q, NlpLoad(file), ent, propn) :
        ent \in SpacyEntities(q), propn \in SpacyProperNouns(q)}

\* try_nlp: the JSON of a 200 answer, None when NLPService did not answer 200
try_nlp(result) == IF result = NoNlpResult THEN None ELSE QueryResponse(result)

\* try_ollama: the JSON of a 200 answer (response_model=QueryResponse), None when
\* OllamaService answered 500 or did not answer
try_ollama(o) == IF o.parsed = None THEN None ELSE QueryResponse(o.parsed)

get_recommendations_from_ollama == {RecommendFailed} \cup RecommendAnswers

(***************************************************************************)
(* Actions: the /ask handler, one action per stretch between two awaits    *)
(***************************************************************************)
\* lines 77-123: request received, pre-check, try_nlp posted unless it matched
Ask(q, ul) ==
    /\ pc = "idle"
    /\ requests < MaxRequests
    /\ requests' = requests + 1
    /\ query' = q
    /\ user_location' = ul
    /\ parsed_query' = PreCheck(q)
    /\ R' = PreCheck(q)
    /\ pc' = IF PreCheck(q) # None THEN "ollama" ELSE "nlp"
    /\ UNCHANGED <<nlp_result, ollama, G, winner, fan, lookups, inflight, answers,
                   response, raised, keywords_file>>
    /\ UNCHANGED <<writers, doc>>

\* line 123 resumes: try_nlp answered, try_ollama posted
NlpReturn ==
    /\ pc = "nlp"
    /\ \E result \in ParseQuery(query, keywords_file) \cup {NoNlpResult} :
          /\ nlp_result' = result
          /\ parsed_query' = try_nlp(result)
          /\ R' = try_nlp(result)
    /\ pc' = "ollama"
    /\ UNCHANGED <<requests, query, user_location, ollama, G, winner, fan, lookups,
                   inflight, answers, response, raised, keywords_file>>
    /\ UNCHANGED <<writers, doc>>

\* lines 133-179 for the arbitrated parsed_query pq
Route(pq) ==
    IF pq # None /\ pq.intent \in RecommendationIntents
    THEN \* handle_recommendation_query, lines 243-263, up to the recommend call
         /\ parsed_query' = pq
         /\ fan' = [NoFan EXCEPT
                      !.location = FanoutLocation(pq),
                      !.recommendation_type = FanoutType(pq.intent),
                      !.prompt = RecommendPrompt(FanoutType(pq.intent), FanoutLocation(pq))]
         /\ pc' = "recommend"
         /\ UNCHANGED <<lookups, inflight, response>>
    ELSE IF pq # None /\ pq.intent = "situational" /\ ~Truthy(user_location)
    THEN /\ parsed_query' = pq
         /\ response' = handle_situational_query(query)
         /\ pc' = "done"
         /\ UNCHANGED <<fan, lookups, inflight>>
    ELSE LET pq2 == IF pq # None /\ pq.intent = "situational"
                    THEN UserLocationOverride(query, user_location)
                    ELSE pq
         IN  /\ parsed_query' = pq2
             /\ UNCHANGED fan
             /\ IF ~Truthy(ResolvedLocation(user_location, pq2))
                THEN /\ response' = NoLocationResponse(query)
                     /\ pc' = "done"
                     /\ UNCHANGED <<lookups, inflight>>
                ELSE \* line 179: the payload is parsed_query
                     /\ lookups' = <<pq2>>
                     /\ inflight' = {1}
                     /\ pc' = "single"
                     /\ UNCHANGED response

\* OllamaService.parse_query up to the first await after the generation call:
\* parse_with_ollama lines 182-198
ParseWithOllama ==
    /\ pc = "ollama"
    /\ \E outcome \in GenerationOutcomes, keywords \in OllamaKeywords :
        \E parsed \in OllamaResults(query, outcome) :
          /\ outcome # "ok" => keywords = NoKeywords
          /\ IF keywords # NoKeywords
             THEN \* line 198: send_keywords_to_nlp posted and awaited
                  /\ ollama' = [outcome |-> outcome, parsed |-> parsed,
                                keywords |-> keywords, merge |-> "pending"]
                  /\ pc' = "merge"
             ELSE /\ ollama' = [outcome |-> outcome, parsed |-> parsed,
                                keywords |-> keywords, merge |-> NULL]
                  /\ pc' = "ollama_reply"
    /\ UNCHANGED <<requests, query, user_location, R, nlp_result, G, winner,
                   parsed_query, fan, lookups, inflight, answers, response, raised,
                   keywords_file>>
    /\ UNCHANGED <<writers, doc>>

\* NLPService.update_keywords answers the post of send_keywords_to_nlp, or the
\* post fails or times out (swallowed at lines 136-137); then parse_with_ollama
\* returns parsed, line 200
UpdateKeywordsReturn ==
    /\ pc = "merge"
    /\ \/ /\ keywords_file' = update_keywords(ollama.keywords, keywords_file)
          /\ ollama' = [ollama EXCEPT !.merge = "updated"]
       \/ /\ ollama' = [ollama EXCEPT !.merge = "failed"]
          /\ UNCHANGED keywords_file
    /\ pc' = "ollama_reply"
    /\ UNCHANGED <<requests, query, user_location, R, nlp_result, G, winner,
                   parsed_query, fan, lookups, inflight, answers, response, raised>>
    /\ UNCHANGED <<writers, doc>>

\* lines 126-179: try_ollama answered (or, OllamaService being unreachable, gave
\* up); keyword update, arbitration, routing
OllamaReturn ==
    /\ pc \in {"ollama", "ollama_reply"}
    /\ \E g \in {try_ollama(ollama)} :
          /\ G' = g
          /\ IF g # None /\ UpdateKeywordsRaises(keywords_file)
             THEN /\ response' = ExceptionResponse(query, "'situational'")
                  /\ pc' = "done"
                  /\ UNCHANGED <<winner, parsed_query, fan, lookups, inflight,
                                 keywords_file>>
             ELSE /\ keywords_file' = IF g # None
                                      THEN UpdateKeywordsFromOllama(query, keywords_file)
                                      ELSE keywords_file
                  /\ winner' = Arbitrate(parsed_query, g)
                  /\ Route(Arbitrate(parsed_query, g))
    /\ ollama' = NoOllama
    /\ UNCHANGED <<requests, query, user_location, R, nlp_result, answers, raised>>
    /\ UNCHANGED <<writers, doc>>

\* lines 263-306: the recommend call answered; candidates, first lookup posted
RecommendReturn ==
    /\ pc = "recommend"
    /\ \E a \in get_recommendations_from_ollama :
          IF a.kind = "non_object"
          THEN \* line 264: .get on a value that is not a dict raises; the
               \* exception leaves handle_recommendation_query and is caught at 196
               /\ raised' = "AttributeError"
               /\ response' = ExceptionResponse(query, "object has no attribute 'get'")
               /\ pc' = "done"
               /\ UNCHANGED <<fan, lookups, inflight>>
          ELSE LET c == Candidates(parsed_query, fan.recommendation_type,
                                   fan.location, a.locations)
               IN  /\ fan' = [fan EXCEPT !.locations = c.locations,
                                         !.location = c.location]
                   /\ raised' = NULL
                   /\ IF c.locations = <<>>
                      THEN /\ response' = NoRecommendationsResponse(
                                  parsed_query, fan.recommendation_type, c.location)
                           /\ pc' = "done"
                           /\ UNCHANGED <<lookups, inflight>>
                      ELSE /\ lookups' = <<FanoutPayload(c.locations[1])>>
                           /\ inflight' = {1}
                           /\ pc' = "fanout"
                           /\ UNCHANGED response
    /\ UNCHANGED <<requests, query, user_location, R, nlp_result, ollama, G, winner,
                   parsed_query, answers, keywords_file>>
    /\ UNCHANGED <<writers, doc>>

\* lines 299-332: one lookup of the loop answered; next lookup posted or aggregation
FanoutLookupReturn ==
    /\ pc = "fanout"
    /\ LET i == Len(lookups)
           loc == fan.locations[i]
       IN  \E weather_data \in try_playwright(lookups[i]) :
             LET results == IF weather_data.present /\ weather_data.success
                            THEN Append(fan.weather_results, Observation(loc, weather_data))
                            ELSE fan.weather_results
             IN  /\ fan' = [fan EXCEPT !.weather_results = results]
                 /\ answers' = Append(answers, weather_data)
                 /\ IF i < Len(FirstThree(fan.locations))
                    THEN /\ lookups' = Append(lookups, FanoutPayload(fan.locations[i + 1]))
                         /\ inflight' = {i + 1}
                         /\ pc' = "fanout"
                         /\ UNCHANGED response
                    ELSE /\ response' = Aggregate(parsed_query, fan.recommendation_type,
                                                  fan.location, results)
                         /\ inflight' = {}
                         /\ pc' = "done"
                         /\ UNCHANGED lookups
    /\ UNCHANGED <<requests, query, user_location, R, nlp_result, ollama, G, winner,
                   parsed_query, raised, keywords_file>>
    /\ UNCHANGED <<writers, doc>>

\* lines 179-194: the single lookup answered
SingleLookupReturn ==
    /\ pc = "single"
    /\ \E weather_data \in try_playwright(lookups[1]) :
          /\ answers' = <<weather_data>>
          /\ response' =
             IF parsed_query = None
             THEN \* line 193: parsed_query.get on None raises, caught at 196
                  ExceptionResponse(query, "'NoneType' object has no attribute 'get'")
             ELSE IF weather_data.present /\ weather_data.success
             THEN Response(format_response(weather_data), "success", parsed_query,
                           weather_data, parsed_query.processing_method, FALSE, <<>>)
             ELSE Response("Sorry, I couldn't get weather data for "
                              \o ResolvedLocation(user_location, parsed_query),
                           "error", parsed_query, weather_data,
                           parsed_query.processing_method, FALSE, <<>>)
    /\ inflight' = {}
    /\ pc' = "done"
    /\ UNCHANGED <<requests, query, user_location, R, nlp_result, ollama, G, winner,
                   parsed_query, fan, lookups, raised, keywords_file>>
    /\ UNCHANGED <<writers, doc>>

\* the handler has returned its WeatherResponse: its locals are gone, the
\* service waits for the next request
Return ==
    /\ pc = "done"
    /\ pc' = "idle"
    /\ query' = NULL
    /\ user_location' = NULL
    /\ R' = None
    /\ nlp_result' = NoNlpResult
    /\ G' = None
    /\ UNCHANGED ollama
    /\ winner' = None
    /\ parsed_query' = None
    /\ fan' = NoFan
    /\ lookups' = <<>>
    /\ inflight' = {}
    /\ answers' = <<>>
    /\ response' = NoResponse
    /\ raised' = NULL
    /\ UNCHANGED <<requests, keywords_file>>
    /\ UNCHANGED <<writers, doc>>

Next ==
    \/ \E q \in Queries, ul \in UserLocations : Ask(q, ul)
    \/ Return
    \/ NlpReturn
    \/ ParseWithOllama
    \/ UpdateKeywordsReturn
    \/ OllamaReturn
    \/ RecommendReturn
    \/ FanoutLookupReturn
    \/ SingleLookupReturn

Spec == Init /\ [][Next]_vars

(***************************************************************************)
(* NLPService /parse called on its own: the classifier as a function of    *)
(* the query and of the vocabulary file it loads                           *)
(***************************************************************************)
\* the file before any write, and after a MainService feedback write
ClassifierStores == {NoFile, UpdateKeywordsFromOllama("Where should I go?", NoFile)}

\* what spaCy may report for the query q
Docs(q) ==
    {[ent |-> ent, propn |-> propn] :
        ent \in SpacyEntities(q), propn \in SpacyProperNouns(q)}

ClassifierInit ==
    /\ pc = "idle"
    /\ requests = 0
    /\ query \in {BestQuery(w, k) : w \in CategoryWords, k \in Countries}
                    \cup ClassifierQueries
    /\ user_location = NULL
    /\ R = None
    /\ doc \in Docs(query)
    /\ nlp_result = NoNlpResult
    /\ ollama = NoOllama
    /\ G = None
    /\ winner = None
    /\ parsed_query = None
    /\ fan = NoFan
    /\ lookups = <<>>
    /\ inflight = {}
    /\ answers = <<>>
    /\ response = NoResponse
    /\ raised = NULL
    /\ keywords_file \in ClassifierStores
    /\ writers = NoWriters

\* NLPService.parse_query, lines 79-89
Classify ==
    /\ nlp_result = NoNlpResult
    /\ nlp_result' = parse_query_text(query, NlpLoad(keywords_file), doc.ent, doc.propn)
    /\ UNCHANGED <<pc, requests, query, user_location, R, ollama, G, winner,
                   parsed_query, fan, lookups, inflight, answers, response, raised,
                   keywords_file>>
    /\ UNCHANGED <<writers, doc>>

ClassifierNext == Classify

ClassifierSpec == ClassifierInit /\ [][ClassifierNext]_vars

(***************************************************************************)
(* The writers of dynamic_keywords.json, step by step: NLPService and       *)
(* MainService are two processes started from one directory (start.py),    *)
(* each loads the file, changes its copy and saves it                      *)
(***************************************************************************)
request_vars ==
    <<pc, requests, query, user_location, R, doc, nlp_result, ollama, G, winner,
      parsed_query, fan, lookups, inflight, answers, response, raised>>

\* the (category, phrase) pairs of an update mapping
Pairs(keywords) ==
    UNION {{<<category, x>> : x \in Range(keywords[category])} :
              category \in DOMAIN keywords}

\* NLPService.update_keywords, line 196
NlpUpdateLoad(keywords) ==
    /\ writers.nlp.pc = "idle"
    /\ writers' = [writers EXCEPT
                     !.nlp = [pc |-> "loaded", keywords |-> keywords,
                              current |-> NlpLoad(keywords_file), added |-> {}],
                     !.overlapped = @ \/ writers.main.pc = "loaded"]
    /\ UNCHANGED <<request_vars, keywords_file>>

\* NLPService.update_keywords, lines 197-205
NlpUpdateSave ==
    /\ writers.nlp.pc = "loaded"
    /\ keywords_file' = NlpSave(writers.nlp.current, writers.nlp.keywords, keywords_file)
    /\ writers' = [writers EXCEPT
                     !.nlp = [pc |-> "idle", keywords |-> NoKeywords,
                              current |-> NoFile.data,
                              added |-> Pairs(writers.nlp.keywords)]]
    /\ UNCHANGED request_vars

\* MainService.update_keywords_from_ollama, line 57
MainUpdateLoad(q) ==
    /\ writers.main.pc = "idle"
    /\ writers' = [writers EXCEPT
                     !.main = [pc |-> "loaded", query |-> q,
                               keywords |-> MainLoad(keywords_file), added |-> {}],
                     !.overlapped = @ \/ writers.nlp.pc = "loaded"]
    /\ UNCHANGED <<request_vars, keywords_file>>

\* MainService.update_keywords_from_ollama, lines 58-69
MainUpdateSave ==
    /\ writers.main.pc = "loaded"
    /\ {"situational", "weather"} \subseteq DOMAIN writers.main.keywords
    /\ keywords_file' = MainSave(writers.main.query, writers.main.keywords, keywords_file)
    /\ writers' = [writers EXCEPT
                     !.main = [pc |-> "idle", query |-> NULL, keywords |-> NoFile.data,
                               added |-> {<<"situational", w>> :
                                   w \in NewKeywords(writers.main.query,
                                                     writers.main.keywords)}]]
    /\ UNCHANGED request_vars

StoreNext ==
    \/ \E keywords \in UpdateMappings : NlpUpdateLoad(keywords)
    \/ NlpUpdateSave
    \/ \E q \in FeedbackQueries : MainUpdateLoad(q)
    \/ MainUpdateSave

StoreSpec == Init /\ [][StoreNext]_vars

(***************************************************************************)
(* handle_recommendation_query called on its own: the fan-out's location    *)
(* and type as a function of the parsed query it is handed                  *)
(***************************************************************************)
\* the parsed queries handed to handle_recommendation_query: a recommendation
\* intent, a location that is null, empty, "Unknown" or a name, and a query text
\* naming none, one or two of the countries, in any case
FanoutQueries ==
    { "Best beaches in Spain or Italy",
      "Best mountains in Switzerland and Nepal",
      "Top cities in FRANCE",
      "best peaks in AUSTRIA",
      "Popular beaches in italy",
      "Best places" }
FanoutLocations == {NULL, "", "Unknown", "unknown", "Paris"}

FanoutInit ==
    /\ pc = "idle"
    /\ requests = 0
    /\ query \in FanoutQueries
    /\ user_location = NULL
    /\ R = None
    /\ doc = NoDoc
    /\ nlp_result = NoNlpResult
    /\ ollama = NoOllama
    /\ G = None
    /\ winner = None
    /\ parsed_query \in {Parsed(query, i, l, 90, "ollama") :
                            i \in RecommendationIntents, l \in FanoutLocations}
    /\ fan = NoFan
    /\ lookups = <<>>
    /\ inflight = {}
    /\ answers = <<>>
    /\ response = NoResponse
    /\ raised = NULL
    /\ keywords_file = NoFile
    /\ writers = NoWriters

\* handle_recommendation_query, lines 243-263, up to the recommend call
HandleRecommendationQuery ==
    /\ pc = "idle"
    /\ parsed_query # None
    /\ Route(parsed_query)
    /\ UNCHANGED <<requests, query, user_location, R, nlp_result, ollama, G, winner,
                   answers, raised, keywords_file>>
    /\ UNCHANGED <<writers, doc>>

FanoutNext == HandleRecommendationQuery

FanoutSpec == FanoutInit /\ [][FanoutNext]_vars

TypeOK ==
    /\ pc \in {"idle", "nlp", "ollama", "merge", "ollama_reply", "recommend", "fanout",
               "single", "done"}
    /\ requests \in 0..MaxRequests
    /\ Len(answers) <= Len(lookups)

(***************************************************************************)
(* Properties                                                              *)
(***************************************************************************)
IsRecommendation(pq) == pq # None /\ pq.intent \in RecommendationIntents
IsSituational(pq) == pq # None /\ pq.intent = "situational"

\* lines 127-131 have run for the current request
Arbitrated == pc \in {"recommend", "fanout", "single", "done"}

\* handle_recommendation_query was entered for the current request
InFanout == fan.recommendation_type # NULL

\* handle_recommendation_query got past line 288 with candidates
CandidatesKnown == InFanout /\ raised = NULL /\ pc \in {"fanout", "done"}

Succeeded(i) == answers[i].present /\ answers[i].success
SuccessCount == Cardinality({i \in 1..Len(answers) : Succeeded(i)})

\* C1: whenever R or G has a recommendation intent, the request is routed to the
\* recommendation fan-out, whatever the two confidences are
C1_RecommendationAlwaysFansOut ==
    (Arbitrated /\ (IsRecommendation(R) \/ IsRecommendation(G))) => InFanout

\* C2: when neither R nor G is a recommendation or situational intent and both
\* are present, the selected result is G exactly when G.confidence is strictly
\* greater than R.confidence, so a tie selects R; the selected result is the
\* parsed_query the handler goes on with
C2_StrictlyHigherConfidenceWins ==
    (/\ Arbitrated /\ R # None /\ G # None
     /\ ~IsRecommendation(R) /\ ~IsRecommendation(G)
     /\ ~IsSituational(R) /\ ~IsSituational(G))
    => /\ winner \in {R, G}
       /\ (winner = G) <=> (G.confidence > R.confidence)
       /\ (G.confidence = R.confidence) => winner = R
       /\ parsed_query = winner

C2_Witness_TieSelectsR ==
    /\ Arbitrated /\ R # None /\ G # None
    /\ ~IsRecommendation(R) /\ ~IsRecommendation(G)
    /\ ~IsSituational(R) /\ ~IsSituational(G)
    /\ G.confidence = R.confidence
    /\ winner = R
    /\ pc = "single"

\* C3: every payload posted to the weather lookup carries a non-empty location
C3_EveryLookupCarriesLocation ==
    \A i \in 1..Len(lookups) : lookups[i] # None /\ Truthy(lookups[i].location)

\* C4: with no user_location, if R or G is situational (and neither is a
\* recommendation, which is routed to the fan-out first) no weather lookup is
\* issued and the response is status=location_required, requires_location=true
\* with a non-empty suggested_actions list
C4_SituationalWithoutLocation ==
    (/\ Arbitrated /\ ~Truthy(user_location)
     /\ IsSituational(R) \/ IsSituational(G)
     /\ ~IsRecommendation(R) /\ ~IsRecommendation(G))
    => /\ lookups = <<>>
       /\ pc = "done" => /\ response.status = "location_required"
                         /\ response.requires_location
                         /\ Len(response.suggested_actions) > 0

\* C5: when the request has no user_location and the arbitration winner is
\* missing or has no location (no resolver having reported a recommendation,
\* which is routed to the fan-out first), the response is
\* status=location_required with a non-empty suggested_actions list
C5_NoLocationIsLocationRequired ==
    (/\ pc = "done" /\ ~Truthy(user_location)
     /\ ~IsRecommendation(R) /\ ~IsRecommendation(G)
     /\ (winner = None \/ ~Truthy(winner.location)))
    => /\ response.status = "location_required"
       /\ Len(response.suggested_actions) > 0

\* the aggregate text the successful answers call for: the header and one line
\* per successful lookup, in lookup order
RECURSIVE ExpectedLines(_)
ExpectedLines(i) ==
    IF i > Len(answers) THEN ""
    ELSE (IF Succeeded(i)
          THEN " " \o lookups[i].location \o ": " \o Str(answers[i].temperature)
                   \o ", " \o Str(answers[i].condition)
          ELSE "")
         \o ExpectedLines(i + 1)

\* C6: in a fan-out with candidates, with k the number of lookups answered
\* success=true: k >= 1 gives status=success with exactly those k observations,
\* and the 'could not get weather' error is returned if and only if k = 0
C6_PartialSuccessIsSuccess ==
    (pc = "done" /\ CandidatesKnown /\ fan.locations # <<>>)
    => /\ SuccessCount >= 1 =>
            /\ response.status = "success"
            /\ Len(fan.weather_results) = SuccessCount
            /\ response.response =
                  ("Best " \o fan.recommendation_type \o "s in " \o Str(fan.location)
                      \o " today:") \o ExpectedLines(1)
       /\ SuccessCount = 0 <=>
            (response.status = "error" /\ response.processing_method = "playwright")

C6_Witness_OneOfThree ==
    /\ pc = "done" /\ CandidatesKnown
    /\ Len(lookups) = 3
    /\ SuccessCount = 1
    /\ response.status = "success"

\* C7: the second lookup of a fan-out is issued without waiting for the first to
\* complete: when it is posted the first is still in flight
C7_SecondLookupIssuedWhileFirstInFlight ==
    [][(InFanout /\ Len(lookups) = 1 /\ Len(lookups') = 2) => 1 \in inflight']_vars

\* C8: for n candidates the fan-out posts exactly min(n, 3) lookups, the i-th for
\* the i-th candidate, and every answer (failure included) is followed by the
\* next candidate's lookup until min(n, 3) are posted
C8_OneLookupPerFirstThree ==
    (CandidatesKnown /\ fan.locations # <<>>)
    => /\ \A i \in 1..Len(lookups) : lookups[i].location = fan.locations[i]
       /\ Len(lookups) <= Min(Len(fan.locations), 3)
       /\ pc = "fanout" => Len(lookups) = Len(answers) + 1
       /\ pc = "done" => /\ Len(lookups) = Min(Len(fan.locations), 3)
                         /\ Len(answers) = Len(lookups)

C8_Witness_FailureThenNextLookup ==
    /\ pc = "done" /\ CandidatesKnown
    /\ Len(fan.locations) > 3
    /\ Len(lookups) = 3
    /\ ~answers[1].present
    /\ ~answers[2].success
    /\ answers[3].success

\* C9: when the recommendation step ends without candidates the fan-out returns
\* the status=error 'no recommendations' result as a value, posts no lookup and
\* raises no exception
C9_NoCandidatesIsErrorValue ==
    (pc = "done" /\ InFanout /\ fan.locations = <<>>)
    => /\ raised = NULL
       /\ response.status = "error"
       /\ response.processing_method = "ollama"
       /\ lookups = <<>>

\* C10: for a mountain recommendation whose country equals a key of the peak
\* table ignoring case, the candidates are the table's list for that country
C10_PeakTableIgnoresCase ==
    (/\ CandidatesKnown /\ fan.recommendation_type = "mountain"
     /\ Truthy(fan.location)
     /\ \E k \in DOMAIN mountain_fallback : lower(k) = lower(fan.location))
    => fan.locations = mountain_fallback[lower(fan.location)]

\* C11: when the NLP classifier resolved a recommendation with recommendation_type
\* T and country C and the fan-out handles its result, the fan-out uses category T
\* and country C, in the recommend prompt and in the result text
C11_FanoutKeepsTypeAndCountry ==
    (/\ InFanout /\ nlp_result.intent = "recommendation" /\ winner = R)
    => /\ fan.recommendation_type = nlp_result.recommendation_type
       /\ fan.location = nlp_result.country
       /\ fan.prompt = RecommendPrompt(nlp_result.recommendation_type, nlp_result.country)
       /\ (pc = "done" /\ response.status = "success") =>
             response.response =
                ("Best " \o nlp_result.recommendation_type \o "s in "
                    \o nlp_result.country \o " today:") \o ExpectedLines(1)

\* the recommendation_type a category word stands for
CategoryOf(w) ==
    IF w \in BeachWords THEN "beach"
    ELSE IF w \in MountainWords THEN "mountain"
    ELSE IF w \in CityWords THEN "city"
    ELSE "place"

\* C12: for every query "best <category-word> in <Capitalized Country>" the
\* classifier returns intent=recommendation, confidence=0.9, location=null, the
\* recommendation_type of the category word and the country as written
C12_BestCategoryInCountry ==
    \A w \in CategoryWords, k \in Countries :
        (query = BestQuery(w, k) /\ nlp_result # NoNlpResult)
        => nlp_result = NlpResult(query, "recommendation", NULL, 90, CategoryOf(w), k)

\* C13: when a resolver failed (R or G is missing, or both), the arbitrated
\* intent is neither a recommendation nor situational, a location is available
\* from the remaining resolver or from user_location, and the weather service
\* answers success=true to every well-formed lookup it receives, the request
\* ends with status=success
C13_ResolverFailureDoesNotFailRequest ==
    (/\ pc = "done" /\ winner = Arbitrate(R, G)
     /\ R = None \/ G = None
     /\ ~IsRecommendation(winner) /\ ~IsSituational(winner)
     /\ Truthy(ResolvedLocation(user_location, winner))
     /\ \A i \in 1..Len(answers) : ValidWeatherRequest(lookups[i]) => Succeeded(i))
    => response.status = "success"

\* the generation call of parse_with_ollama failed
GenerationFailed ==
    pc = "ollama_reply"
    /\ ollama.outcome \in {"timeout", "non_200", "not_json", "not_object"}

\* C14: on any failure of the generation call (timeout, non-200, text that is
\* not the expected JSON object) the result delivered to arbitration is the
\* degraded value {general_weather, null, 0.3}, never a missing result
C14_GenerationFailureYieldsDegraded ==
    [][GenerationFailed => G' = Degraded(query)]_vars

Statuses == {"success", "error", "location_required"}

\* the handler has returned exactly when it has produced its response, the
\* response has one of the three statuses, and a fan-out without candidates,
\* lookups without a single success and caught exceptions end as status=error
OneResponse ==
    /\ (pc = "done") <=> (response # NoResponse)
    /\ pc = "done" =>
          /\ response.status \in Statuses
          /\ (InFanout /\ fan.locations = <<>>) => response.status = "error"
          /\ (lookups # <<>> /\ SuccessCount = 0) => response.status = "error"
          /\ raised # NULL => response.status = "error"

\* the number of awaits the handler can still go through
Remaining ==
    CASE pc = "nlp" -> 9
      [] pc = "ollama" -> 8
      [] pc = "merge" -> 7
      [] pc = "ollama_reply" -> 6
      [] pc = "recommend" -> 5
      [] pc = "fanout" -> 4 - Len(answers)
      [] pc = "single" -> 1
      [] OTHER -> 0

\* a suspended handler awaits one client call (each has a timeout: 10 s, 30 s or
\* 60 s) whose answer the resuming step can take
AwaitsOneCall ==
    /\ pc = "fanout" => /\ inflight = {Len(lookups)}
                        /\ Len(lookups) = Len(answers) + 1
                        /\ Len(lookups) <= Len(fan.locations)
                        /\ try_playwright(lookups[Len(lookups)]) # {}
    /\ pc = "single" => /\ inflight = {1}
                        /\ Len(lookups) = 1
                        /\ try_playwright(lookups[1]) # {}
    /\ pc \notin {"fanout", "single"} => inflight = {}

\* C15: every /ask request terminates with exactly one response, whose status is
\* success, error or location_required, whatever the downstream services do;
\* zero candidates, zero successful lookups and internal faults end as error.
\* Termination: a suspended handler awaits one call that times out, and every
\* step of the handler lowers the number of awaits that remain
C15_EveryRequestEndsWithOneResponse ==
    /\ [](OneResponse /\ AwaitsOneCall)
    /\ [][response # NoResponse => (pc = "done" /\ response' = NoResponse)]_vars
    /\ [][pc \notin {"idle", "done"} => (Remaining' < Remaining /\ Remaining' >= 0)]_vars

C15_Witness_FaultEndsAsError ==
    /\ pc = "done" /\ raised # NULL
    /\ response.status = "error" /\ response.processing_method = "error"

\* C16: when the arbitrated intent is situational and the request carries a
\* user_location L, the intent is replaced by {intent: weather, location: L,
\* confidence: 0.9}, exactly one weather lookup is issued, for L, and no
\* location_required response is produced
C16_SituationalWithUserLocation ==
    (Arbitrated /\ IsSituational(winner) /\ Truthy(user_location))
    => /\ parsed_query.intent = "weather"
       /\ parsed_query.location = user_location
       /\ parsed_query.confidence = 90
       /\ Len(lookups) = 1
       /\ lookups[1] = parsed_query
       /\ response.status # "location_required"

C16_Witness_OverrideLookedUp ==
    /\ pc = "done" /\ IsSituational(winner) /\ user_location = "Paris"
    /\ lookups[1].location = "Paris"
    /\ response.status = "success"

\* what NLPService's load_dynamic_keywords returns, as (category, phrase) pairs
Loaded(file) ==
    UNION {{<<category, x>> : x \in BagToSet(NlpLoad(file)[category])} :
              category \in DOMAIN NlpLoad(file)}

\* C17: the vocabulary store never shrinks: whatever writer changes the file,
\* every (category, phrase) load() returned before is returned after, the
\* classifier's built-in defaults included
C17_StoreNeverShrinks ==
    [][Loaded(keywords_file) \subseteq Loaded(keywords_file')]_vars

\* C18: merging an update mapping twice leaves the same persisted store as
\* merging it once, for every store and every update mapping
C18_MergeIdempotent ==
    \A keywords \in UpdateMappings :
        update_keywords(keywords, update_keywords(keywords, keywords_file))
            = update_keywords(keywords, keywords_file)

\* both writers have completed and a phrase one of them saved is not in the file
LostUpdate ==
    /\ writers.nlp.pc = "idle" /\ writers.main.pc = "idle"
    /\ \E pair \in writers.nlp.added \cup writers.main.added :
          ~(/\ keywords_file.exists
            /\ pair[1] \in DOMAIN keywords_file.data
            /\ BagIn(pair[2], keywords_file.data[pair[1]]))

\* C19: two merges on the shared file are not isolated: a save writes the copy
\* the writer loaded, with its own additions, over whatever the other writer
\* saved since, so that with overlapping merges (and only then) both complete
\* and a phrase one of them added is missing from the file
C19_SaveOverwritesWithOwnCopy ==
    /\ [](LostUpdate => writers.overlapped)
    /\ [][writers.nlp.pc = "loaded" /\ writers'.nlp.pc = "idle" =>
             keywords_file'.data = Merge(writers.nlp.current, writers.nlp.keywords)]_vars

C19_Witness_LostUpdate ==
    /\ LostUpdate
    /\ <<"situational", "nearby">> \in writers.nlp.added
    /\ writers.main.added # {}

\* C20: in OllamaService the keyword merge is a background step: the parse
\* result handed back is the same whatever becomes of the merge (updated,
\* failed, still pending), and the parser is already replying while the merge
\* is pending, it never waits for it.
C20_MergeDoesNotBlockParse ==
    /\ [](ollama.merge = "pending" => pc = "ollama_reply")
    /\ [][pc = "ollama_reply" /\ pc' # "ollama_reply"
            => G' = try_ollama([ollama EXCEPT !.merge = NULL])]_vars


\* the phrases of a category are a set ignoring case: none is stored twice and no
\* two of them are equal when lower-cased
CaseInsensitiveSet(bag) ==
    \A x \in BagToSet(bag) :
        /\ CopiesIn(x, bag) = 1
        /\ \A y \in BagToSet(bag) : lower(x) = lower(y) => x = y

\* C21: after any sequence of merges every category of the vocabulary file is a
\* deduplicated, case-insensitive set (merging 'Best' into a category holding
\* 'best', or creating a category from a list with repeats, leaves one entry)
C21_CategoriesAreCaseInsensitiveSets ==
    \A category \in DOMAIN keywords_file.data :
        CaseInsensitiveSet(keywords_file.data[category])


\* C22: whenever a single-location weather lookup is issued, the location sent
\* to the weather service is the location resolved for the request: the
\* user_location when supplied, otherwise the arbitration winner's location
C22_LookupForResolvedLocation ==
    (pc \in {"single", "done"} /\ ~InFanout /\ Len(lookups) = 1)
    => /\ lookups[1] # None
       /\ lookups[1].location = ResolvedLocation(user_location, winner)


\* the (category, phrase) pairs a vocabulary mapping holds
Stored(data) ==
    UNION {{<<category, x>> : x \in BagToSet(data[category])} : category \in DOMAIN data}

\* the pairs a step of the request adds to the vocabulary, the built-in defaults
\* (written with the first save) aside
Entered ==
    Stored(keywords_file'.data)
        \ (Stored(keywords_file.data) \cup Stored(NlpDefaults) \cup Stored(MainDefaults))

\* C23: the vocabulary is mutated only by the generative parser's feedback and
\* by the bulk update: a phrase enters a category only if it occurs, for that
\* category, in the keywords output of the generative parser (the payload of
\* the bulk update it posts); handling a query adds no word of the query text
C23_OnlyParserKeywordsEnterStore ==
    [][Entered \subseteq Pairs(ollama.keywords)]_vars


\* how an absent value reads when it is printed: Python's None, the defaults of
\* the .get calls
Sentinels == {"None", "N/A", "Unknown"}

\* C24: no response text renders a sentinel: in the single-location sentence
\* and in every line of a recommendation aggregate a temperature or condition
\* that is absent, null or 'N/A' (a condition 'Unknown') is skipped
C24_NoSentinelRendered ==
    (pc = "done" /\ response.status = "success" /\ (InFanout => Truthy(fan.location)))
    => ~AnyIn(Sentinels, response.response)


\* the recommendation type of a query by the priority beach/coast, mountain/peak,
\* city/town, generic place
PriorityType(q) ==
    IF AnyIn(BeachWords, lower(q)) THEN "beach"
    ELSE IF AnyIn(MountainWords, lower(q)) THEN "mountain"
    ELSE IF AnyIn(CityWords, lower(q)) THEN "city"
    ELSE "place"

\* C25: the recommendation type resolved for a query follows the priority
\* beach/coast, mountain/peak, city/town, generic place wherever the
\* recommendation pattern is evaluated: in the MainService pre-check and in the
\* NLP classifier
C25_TypePriorityEverywhere ==
    /\ (R # None /\ R.processing_method = "fallback")
          => FanoutType(R.intent) = PriorityType(query)
    /\ nlp_result.intent = "recommendation"
          => nlp_result.recommendation_type = PriorityType(query)


\* parse_query_text has classified the query
Classified == nlp_result # NoNlpResult

\* the query contains a phrase of the situational vocabulary
HasSituationalPhrase ==
    AnyIn(Get(NlpLoad(keywords_file), "situational", {}), lower(query))

\* step 1's recommendation pattern: a recommendation phrase together with "in"
MatchesRecommendationPattern ==
    /\ AnyIn(Get(NlpLoad(keywords_file), "recommendation", {}), lower(query))
    /\ Contains("in", lower(query))

\* C26: the classifier is a cascade in which the first match wins: it returns
\* {intent: situational, location: null, confidence: 0.9} for exactly the
\* queries that contain a situational phrase and do not match step 1's
\* recommendation pattern; a query step 1 resolves with a category and a
\* country is never classified situational
C26_SituationalUnlessRecommendationPattern ==
    Classified =>
        /\ (nlp_result = NlpResult(query, "situational", NULL, 90, NULL, NULL))
              <=> (HasSituationalPhrase /\ ~MatchesRecommendationPattern)
        /\ nlp_result.intent = "situational"
              => nlp_result = NlpResult(query, "situational", NULL, 90, NULL, NULL)
        /\ (MatchesRecommendationPattern /\ SearchInCapWords(query) # NULL
               /\ RecommendationType(lower(query), NlpLoad(keywords_file)) # NULL)
              => nlp_result.intent = "recommendation"


InUnitRange(confidence) == 0 <= confidence /\ confidence <= 100

\* C27: the confidence of every parse that enters arbitration (from the
\* pre-check or the classifier, and the value the generation model reported)
\* and of the arbitration winner lies in [0.0, 1.0]
C27_ConfidencesInUnitRange ==
    Arbitrated =>
        /\ R # None => InUnitRange(R.confidence)
        /\ G # None => InUnitRange(G.confidence)
        /\ winner # None => InUnitRange(winner.confidence)


\* the country names of the literal detection, in the order they are tried
DetectedCountries == <<"Nepal", "Switzerland", "France", "Italy", "Spain">>

\* the first of them the text names, ignoring case; otherwise the value given
FirstCountryIn(text, otherwise) ==
    LET hits == {i \in 1..Len(DetectedCountries) :
                    Contains(lower(DetectedCountries[i]), lower(text))}
    IN  IF hits = {} THEN otherwise
        ELSE DetectedCountries[CHOOSE i \in hits : \A j \in hits : i <= j]

OnEntityPath == Classified /\ nlp_result.intent \notin {"recommendation", "situational"}

\* the proper-noun tokens the second tier accepts, in document order
Accepted(propn) ==
    SelectSeq(propn, LAMBDA t : Len(t) > 2 /\ lower(t) \notin SkipWords)

\* the location and the confidence the tiers call for, taken in the order
\* named entity, proper noun, "in X"
TierResult ==
    CASE doc.ent # NULL -> [location |-> doc.ent, confidence |-> 80]
      [] doc.ent = NULL /\ Accepted(doc.propn) # <<>> ->
            [location |-> Head(Accepted(doc.propn)), confidence |-> 60]
      [] doc.ent = NULL /\ Accepted(doc.propn) = <<>> /\ SearchInCapWord(query) # NULL ->
            [location |-> SearchInCapWord(query), confidence |-> 70]
      [] OTHER -> [location |-> NULL, confidence |-> 50]

\* C29: the entity extractor tries the tiers in the order named entity (0.8),
\* proper-noun heuristic (0.6), regex 'in X' (0.7) and stops at the first that
\* succeeds; a later tier runs only if all earlier ones found nothing; when
\* none succeeds the location is absent and the confidence is the default 0.5
\* (the weather-keyword step after the tiers may raise the confidence, it never
\* changes the location)
C29_TiersInOrder ==
    OnEntityPath =>
        /\ nlp_result.location = TierResult.location
        /\ nlp_result.confidence >= TierResult.confidence
        /\ nlp_result.intent = "general_weather"
              => nlp_result.confidence = TierResult.confidence

C29_Witness_RegexAfterStoplistedToken ==
    /\ OnEntityPath
    /\ doc = [ent |-> NULL, propn |-> <<"Weather">>]
    /\ SearchInCapWord(query) = "Paris"
    /\ nlp_result.location = "Paris"


\* the keyword groups in the order they are tried
GroupOrder == <<"temperature", "current_weather", "humidity", "wind", "precipitation">>

\* the place of a group in weather_keywords
GroupIndex(intent) ==
    (CHOOSE i \in 1..Len(WeatherKeywords) : WeatherKeywords[i].intent = intent)

\* the groups with a keyword in the query, by their place in GroupOrder
GroupHits ==
    {i \in 1..Len(GroupOrder) :
        AnyIn(WeatherKeywords[GroupIndex(GroupOrder[i])].keywords, lower(query))}

\* C30: on the entity-extractor path the intent is the first keyword group with
\* a hit in the order temperature, current_weather, humidity, wind,
\* precipitation, general_weather when no group hits; a hit raises the
\* confidence by exactly 0.2 capped at 0.9, no hit leaves it unchanged, so the
\* confidence is always one of 0.5, 0.6, 0.7, 0.8, 0.9
C30_FirstGroupAndBoost ==
    OnEntityPath =>
        /\ nlp_result.intent =
              IF GroupHits = {} THEN "general_weather"
              ELSE GroupOrder[CHOOSE i \in GroupHits : \A j \in GroupHits : i <= j]
        /\ nlp_result.confidence =
              IF GroupHits = {} THEN TierResult.confidence
              ELSE Min(TierResult.confidence + 20, 90)
        /\ nlp_result.confidence \in {50, 60, 70, 80, 90}

====
